---- MODULE Spec2Model ----
(***************************************************************************)
(* A model of bin/bdb-tool.py: the BDBTool key-value store (set, get,      *)
(* delete, rename) and its dump / restore text format.                     *)
(*                                                                         *)
(* Text is a sequence of one-character strings.  The engine stores byte    *)
(* sequences (UTF-8), modelled as sequences of byte numbers.  The engine   *)
(* keeps an in-memory view (db) that sync() writes to the file (disk).     *)
(* A process opens the store, runs one command and closes the store (pc).  *)
(***************************************************************************)
EXTENDS Integers, Sequences, FiniteSets, TLC

VARIABLES db, disk, pc, last, engineFaults, proc

vars == << db, disk, pc, last, engineFaults, proc >>

(***************************************************************************)
(* Bounds of the model.                                                    *)
(***************************************************************************)
\* the most records the store holds
MaxRecords == 2
\* the most lines of a restore input file
MaxLines == 2

(***************************************************************************)
(* Characters and the UTF-8 codec (str.encode / bytes.decode).             *)
(***************************************************************************)
TAB == "\t"
LF == "\n"
CR == "\r"
SP == " "

Chars == {"a", "b", TAB, LF, CR, SP}

\* str.encode('utf-8') of one ASCII character
Byte(c) ==
    CASE c = "a" -> 97
      [] c = "b" -> 98
      [] c = TAB -> 9
      [] c = LF -> 10
      [] c = CR -> 13
      [] c = SP -> 32

\* bytes.decode('utf-8') of one ASCII byte
Char(n) == CHOOSE c \in Chars : Byte(c) = n

RECURSIVE Encode(_)
Encode(s) == IF s = << >> THEN << >> ELSE << Byte(Head(s)) >> \o Encode(Tail(s))

RECURSIVE Decode(_)
Decode(bs) == IF bs = << >> THEN << >> ELSE << Char(Head(bs)) >> \o Decode(Tail(bs))

(***************************************************************************)
(* str.replace on single characters.                                       *)
(***************************************************************************)
RECURSIVE Remove(_, _)
Remove(s, c) ==
    IF s = << >> THEN << >>
    ELSE IF Head(s) = c THEN Remove(Tail(s), c)
    ELSE << Head(s) >> \o Remove(Tail(s), c)

RECURSIVE Replace(_, _, _)
Replace(s, c, d) ==
    IF s = << >> THEN << >>
    ELSE << IF Head(s) = c THEN d ELSE Head(s) >> \o Replace(Tail(s), c, d)

\* a faulty Normalize: the carriage return is kept
NormalizeKeepCR(value) == Replace(value, LF, SP)

\* a faulty Normalize: the carriage return becomes a space too
NormalizeCRSpace(value) == Replace(Replace(value, CR, SP), LF, SP)

\* value.replace('\r', '').replace('\n', ' ')
Normalize(value) == Replace(Remove(value, CR), LF, SP)

(***************************************************************************)
(* The engine: a map from key bytes to value bytes.                        *)
(***************************************************************************)
EmptyDB == [x \in {} |-> << >>]

\* self.db[key_bin] = value_bin
Put(d, key_bin, value_bin) ==
    [x \in (DOMAIN d) \cup {key_bin} |-> IF x = key_bin THEN value_bin ELSE d[x]]

\* del self.db[key_bin]
Del(d, key_bin) == [x \in (DOMAIN d) \ {key_bin} |-> d[x]]

\* key_bin in self.db
Has(d, key_bin) == key_bin \in DOMAIN d

(***************************************************************************)
(* Messages on the error stream.                                           *)
(***************************************************************************)
Msg(kind, line, key) == [kind |-> kind, line |-> line, key |-> key]

\* one outcome of a BDBTool method: the engine's view, the file, the value
\* returned (ok), the kind of outcome and the error-stream messages
Outcome(d, dk, ok, res, err) ==
    [db |-> d, disk |-> dk, ok |-> ok, res |-> res, err |-> err]

(***************************************************************************)
(* BDBTool.set.  fault names the engine call that raises DBError, if any.  *)
(***************************************************************************)
\* a faulty set: the existence check ignores force=false
setNoCheck(d, dk, key, value, force, fault) ==
    LET key_bin == Encode(key)
        value_bin == Encode(Normalize(value))
    IN Outcome(Put(d, key_bin, value_bin), Put(d, key_bin, value_bin), TRUE, "Ok", << >>)

\* a faulty set: the existence check writes no message
setSilent(d, dk, key, value, force, fault) ==
    LET key_bin == Encode(key)
        value_bin == Encode(Normalize(value))
    IN IF ~force /\ Has(d, key_bin)
       THEN Outcome(d, dk, FALSE, "AlreadyExists", << >>)
       ELSE IF fault = "put"
       THEN Outcome(d, dk, FALSE, "IOError", << Msg("IOError", 0, key) >>)
       ELSE IF fault = "sync"
       THEN Outcome(Put(d, key_bin, value_bin), dk, FALSE, "IOError",
                    << Msg("IOError", 0, key) >>)
       ELSE Outcome(Put(d, key_bin, value_bin), Put(d, key_bin, value_bin),
                    TRUE, "Ok", << >>)

\* a faulty set: the sync() call is missing
setNoSync(d, dk, key, value, force, fault) ==
    LET key_bin == Encode(key)
        value_bin == Encode(Normalize(value))
    IN IF ~force /\ Has(d, key_bin)
       THEN Outcome(d, dk, FALSE, "AlreadyExists", << Msg("AlreadyExists", 0, key) >>)
       ELSE IF fault = "put"
       THEN Outcome(d, dk, FALSE, "IOError", << Msg("IOError", 0, key) >>)
       ELSE Outcome(Put(d, key_bin, value_bin), dk, TRUE, "Ok", << >>)

set(d, dk, key, value, force, fault) ==
    LET key_bin == Encode(key)
        normalized_value == Normalize(value)
        value_bin == Encode(normalized_value)
    IN IF ~force /\ Has(d, key_bin)
       THEN Outcome(d, dk, FALSE, "AlreadyExists", << Msg("AlreadyExists", 0, key) >>)
       ELSE IF fault = "put"
       THEN Outcome(d, dk, FALSE, "IOError", << Msg("IOError", 0, key) >>)
       ELSE IF fault = "sync"
       THEN Outcome(Put(d, key_bin, value_bin), dk, FALSE, "IOError",
                    << Msg("IOError", 0, key) >>)
       ELSE Outcome(Put(d, key_bin, value_bin), Put(d, key_bin, value_bin),
                    TRUE, "Ok", << >>)

(***************************************************************************)
(* BDBTool.get: the decoded, normalized value, or None.                    *)
(***************************************************************************)
None == [found |-> FALSE, value |-> << >>]

get(d, key) ==
    LET key_bin == Encode(key)
    IN IF ~Has(d, key_bin) THEN None
       ELSE [found |-> TRUE, value |-> Normalize(Decode(d[key_bin]))]

(***************************************************************************)
(* BDBTool.delete.                                                         *)
(***************************************************************************)
\* a faulty delete: a missing key is reported as deleted
deleteNoCheck(d, dk, key, fault) ==
    Outcome(Del(d, Encode(key)), Del(d, Encode(key)), TRUE, "Ok", << >>)

delete(d, dk, key, fault) ==
    LET key_bin == Encode(key)
    IN IF ~Has(d, key_bin)
       THEN Outcome(d, dk, FALSE, "NotFound", << Msg("NotFound", 0, key) >>)
       ELSE IF fault = "del"
       THEN Outcome(d, dk, FALSE, "IOError", << Msg("IOError", 0, key) >>)
       ELSE IF fault = "sync"
       THEN Outcome(Del(d, key_bin), dk, FALSE, "IOError", << Msg("IOError", 0, key) >>)
       ELSE Outcome(Del(d, key_bin), Del(d, key_bin), TRUE, "Ok", << >>)

(***************************************************************************)
(* BDBTool.rename: copy the value to new_key, delete old_key, sync.        *)
(***************************************************************************)
\* a faulty rename: the target check ignores force=false
renameNoCheck(d, dk, old_key, new_key, force, fault) ==
    LET old_key_bin == Encode(old_key)
        new_key_bin == Encode(new_key)
    IN IF ~Has(d, old_key_bin)
       THEN Outcome(d, dk, FALSE, "NotFound", << Msg("NotFound", 0, old_key) >>)
       ELSE Outcome(Del(Put(d, new_key_bin, d[old_key_bin]), old_key_bin),
                    Del(Put(d, new_key_bin, d[old_key_bin]), old_key_bin),
                    TRUE, "Ok", << >>)

\* a faulty rename: the old key is not deleted
renameNoDelete(d, dk, old_key, new_key, force, fault) ==
    LET old_key_bin == Encode(old_key)
        new_key_bin == Encode(new_key)
    IN IF ~Has(d, old_key_bin)
       THEN Outcome(d, dk, FALSE, "NotFound", << Msg("NotFound", 0, old_key) >>)
       ELSE IF ~force /\ Has(d, new_key_bin)
       THEN Outcome(d, dk, FALSE, "AlreadyExists",
                    << Msg("AlreadyExists", 0, new_key) >>)
       ELSE Outcome(Put(d, new_key_bin, d[old_key_bin]),
                    Put(d, new_key_bin, d[old_key_bin]), TRUE, "Ok", << >>)

\* a faulty rename: the check of the new key comes first
renameNewFirst(d, dk, old_key, new_key, force, fault) ==
    LET old_key_bin == Encode(old_key)
        new_key_bin == Encode(new_key)
    IN IF ~force /\ Has(d, new_key_bin)
       THEN Outcome(d, dk, FALSE, "AlreadyExists",
                    << Msg("AlreadyExists", 0, new_key) >>)
       ELSE IF ~Has(d, old_key_bin)
       THEN Outcome(d, dk, FALSE, "NotFound", << Msg("NotFound", 0, old_key) >>)
       ELSE Outcome(Del(Put(d, new_key_bin, d[old_key_bin]), old_key_bin),
                    Del(Put(d, new_key_bin, d[old_key_bin]), old_key_bin),
                    TRUE, "Ok", << >>)

rename(d, dk, old_key, new_key, force, fault) ==
    LET old_key_bin == Encode(old_key)
        new_key_bin == Encode(new_key)
    IN IF ~Has(d, old_key_bin)
       THEN Outcome(d, dk, FALSE, "NotFound", << Msg("NotFound", 0, old_key) >>)
       ELSE IF ~force /\ Has(d, new_key_bin)
       THEN Outcome(d, dk, FALSE, "AlreadyExists",
                    << Msg("AlreadyExists", 0, new_key) >>)
       ELSE LET value_bin == d[old_key_bin]
                written == Put(d, new_key_bin, value_bin)
                removed == Del(written, old_key_bin)
                failed(x) == Outcome(x, dk, FALSE, "IOError",
                                     << Msg("IOError", 0, old_key) >>)
            IN IF fault = "put" THEN failed(d)
               ELSE IF fault = "del" THEN failed(written)
               ELSE IF fault = "sync" THEN failed(removed)
               ELSE Outcome(removed, removed, TRUE, "Ok", << >>)

(***************************************************************************)
(* BDBTool.dump: one line key<TAB>value per record, in the engine's        *)
(* iteration order (order: a sequence of the key bytes of the store).      *)
(***************************************************************************)
\* every order in which the engine may iterate over the records
Orders(d) ==
    LET n == Cardinality(DOMAIN d)
    IN { o \in [1..n -> DOMAIN d] : \A i, j \in 1..n : o[i] = o[j] => i = j }

RECURSIVE dump(_, _)
dump(d, order) ==
    IF order = << >> THEN << >>
    ELSE LET k == Decode(Head(order))
             v == Decode(d[Head(order)])
             normalized_v == Normalize(v)
         IN k \o << TAB >> \o normalized_v \o << LF >> \o dump(d, Tail(order))

(***************************************************************************)
(* Reading the restore input: open(path, 'r') in text mode translates      *)
(* "\r\n" and "\r" to "\n"; iterating the file yields the lines, each      *)
(* with its terminating "\n" (the last one possibly without).              *)
(***************************************************************************)
RECURSIVE UniversalNewlines(_)
UniversalNewlines(text) ==
    IF text = << >> THEN << >>
    ELSE IF Head(text) = CR
    THEN IF Len(text) > 1 /\ text[2] = LF
         THEN << LF >> \o UniversalNewlines(Tail(Tail(text)))
         ELSE << LF >> \o UniversalNewlines(Tail(text))
    ELSE << Head(text) >> \o UniversalNewlines(Tail(text))

RECURSIVE SplitLines(_, _)
SplitLines(text, cur) ==
    IF text = << >> THEN (IF cur = << >> THEN << >> ELSE << cur >>)
    ELSE IF Head(text) = LF
    THEN << Append(cur, LF) >> \o SplitLines(Tail(text), << >>)
    ELSE SplitLines(Tail(text), Append(cur, Head(text)))

\* the lines "for line in f" yields
FileLines(text) == SplitLines(UniversalNewlines(text), << >>)

\* line.rstrip(c)
RECURSIVE rstrip(_, _)
rstrip(line, c) ==
    IF line # << >> /\ line[Len(line)] = c
    THEN rstrip(SubSeq(line, 1, Len(line) - 1), c)
    ELSE line

\* the positions of sep in line
Positions(line, sep) == { i \in 1..Len(line) : line[i] = sep }

Min(S) == CHOOSE x \in S : \A y \in S : x <= y

\* a faulty split: the line is split at every separator
RECURSIVE splitAll(_, _, _)
splitAll(line, sep, maxsplit) ==
    IF Positions(line, sep) = {} THEN << line >>
    ELSE LET i == Min(Positions(line, sep))
         IN << SubSeq(line, 1, i - 1) >>
            \o splitAll(SubSeq(line, i + 1, Len(line)), sep, maxsplit)

\* line.split(sep, maxsplit)
RECURSIVE split(_, _, _)
split(line, sep, maxsplit) ==
    IF maxsplit = 0 \/ Positions(line, sep) = {} THEN << line >>
    ELSE LET i == Min(Positions(line, sep))
         IN << SubSeq(line, 1, i - 1) >>
            \o split(SubSeq(line, i + 1, Len(line)), sep, maxsplit - 1)

(***************************************************************************)
(* BDBTool.restore.  The loop state acc holds the store, the count, the    *)
(* error stream, a log of what became of each line and whether every       *)
(* line applied so far was on disk when its set returned.                  *)
(***************************************************************************)
LineLog(num, kind, key, value) ==
    [num |-> num, kind |-> kind, key |-> key, value |-> value]

\* a faulty restoreLine: the count is incremented whatever set returns
restoreLineCountAll(acc, line_num, raw, force, fault) ==
    LET line == rstrip(raw, LF)
        parts == split(line, TAB, 1)
        r == set(acc.db, acc.disk, parts[1], parts[2], force, fault)
    IN IF line = << >>
       THEN [acc EXCEPT !.log = Append(@, LineLog(line_num, "empty", << >>, << >>))]
       ELSE IF Len(parts) # 2
       THEN [acc EXCEPT !.err = Append(@, Msg("Warning", line_num, line)),
                        !.log = Append(@, LineLog(line_num, "invalid", << >>, << >>))]
       ELSE [acc EXCEPT !.db = r.db, !.disk = r.disk, !.err = @ \o r.err,
                        !.count = @ + 1,
                        !.durable = @ /\ (r.ok => r.disk = r.db),
                        !.log = Append(@, LineLog(line_num,
                                    IF r.ok THEN "applied"
                                    ELSE IF r.res = "AlreadyExists" THEN "rejected"
                                    ELSE "failed",
                                    parts[1], parts[2]))]

\* one pass of the loop body (lines 177 to 191)
restoreLine(acc, line_num, raw, force, fault) ==
    LET line == rstrip(raw, LF)
        parts == split(line, TAB, 1)
        input_key == parts[1]
        input_value == parts[2]
        r == set(acc.db, acc.disk, input_key, input_value, force, fault)
    IN IF line = << >>
       THEN [acc EXCEPT !.log = Append(@, LineLog(line_num, "empty", << >>, << >>))]
       ELSE IF Len(parts) # 2
       THEN [acc EXCEPT !.err = Append(@, Msg("Warning", line_num, line)),
                        !.log = Append(@, LineLog(line_num, "invalid", << >>, << >>))]
       ELSE [acc EXCEPT !.db = r.db, !.disk = r.disk, !.err = @ \o r.err,
                        !.count = IF r.ok THEN @ + 1 ELSE @,
                        !.durable = @ /\ (r.ok => r.disk = r.db),
                        !.log = Append(@, LineLog(line_num,
                                    IF r.ok THEN "applied"
                                    ELSE IF r.res = "AlreadyExists" THEN "rejected"
                                    ELSE "failed",
                                    input_key, input_value))]

\* a faulty restoreLoop: the loop ends at the first line without a tab
RECURSIVE restoreLoopBreak(_, _, _, _, _)
restoreLoopBreak(lines, line_num, acc, force, fault) ==
    IF line_num > Len(lines) THEN acc
    ELSE LET nxt == restoreLine(acc, line_num, lines[line_num], force,
                                IF fault.line = line_num THEN fault.kind ELSE "none")
         IN IF nxt.log[Len(nxt.log)].kind = "invalid" THEN nxt
            ELSE restoreLoopBreak(lines, line_num + 1, nxt, force, fault)

\* for line_num, line in enumerate(f, 1)
RECURSIVE restoreLoop(_, _, _, _, _)
restoreLoop(lines, line_num, acc, force, fault) ==
    IF line_num > Len(lines) THEN acc
    ELSE restoreLoop(lines, line_num + 1,
                     restoreLine(acc, line_num, lines[line_num], force,
                                 IF fault.line = line_num THEN fault.kind ELSE "none"),
                     force, fault)

NoFault == [line |-> 0, kind |-> "none"]

\* a faulty restore: a read error undoes the lines applied before it
restoreRollback(d, dk, file, force, fault) ==
    LET start == [db |-> d, disk |-> dk, count |-> 0, err |-> << >>,
                  log |-> << >>, durable |-> TRUE]
        end == restoreLoop(FileLines(file.text), 1, start, force, fault)
    IN IF ~file.exists
       THEN [start EXCEPT !.err = << Msg("FileNotFound", 0, << >>) >>]
               @@ [ok |-> FALSE, res |-> "IOError"]
       ELSE IF fault.kind = "read"
       THEN [start EXCEPT !.err = << Msg("ReadError", 0, << >>) >>]
               @@ [ok |-> FALSE, res |-> "IOError"]
       ELSE [end EXCEPT !.err = Append(@, Msg("Summary", end.count, << >>))]
               @@ [ok |-> TRUE, res |-> "Ok"]

\* file: whether the input file exists, and its text; a fault of kind "read"
\* is the read of the line fault.line raising OSError: the lines before it
\* have gone through the loop, the except clause writes the error, no
\* summary is written
restore(d, dk, file, force, fault) ==
    LET start == [db |-> d, disk |-> dk, count |-> 0, err |-> << >>,
                  log |-> << >>, durable |-> TRUE]
        lines == FileLines(file.text)
        read == IF fault.kind = "read" THEN SubSeq(lines, 1, fault.line - 1)
                ELSE lines
        end == restoreLoop(read, 1, start, force, fault)
    IN IF ~file.exists
       THEN [start EXCEPT !.err = << Msg("FileNotFound", 0, << >>) >>]
               @@ [ok |-> FALSE, res |-> "IOError"]
       ELSE IF fault.kind = "read"
       THEN [end EXCEPT !.err = Append(@, Msg("ReadError", 0, << >>))]
               @@ [ok |-> FALSE, res |-> "IOError"]
       ELSE [end EXCEPT !.err = Append(@, Msg("Summary", end.count, << >>))]
               @@ [ok |-> TRUE, res |-> "Ok"]

(***************************************************************************)
(* The engine calls of a command, in the order the command makes them,     *)
(* and what the file may hold when the process is killed before sync()     *)
(* has returned: the engine writes its pages when it chooses, so any of    *)
(* the writes issued may have reached the file and any may not.            *)
(***************************************************************************)
Write(op, key_bin, value_bin) == [op |-> op, key |-> key_bin, value |-> value_bin]

Apply(d, w) == IF w.op = "put" THEN Put(d, w.key, w.value) ELSE Del(d, w.key)

RECURSIVE ApplyAll(_, _)
ApplyAll(d, ws) == IF ws = << >> THEN d ELSE ApplyAll(Apply(d, Head(ws)), Tail(ws))

\* the writes of ws whose index is in S, in order, from index i on
RECURSIVE Pick(_, _, _)
Pick(ws, S, i) ==
    IF i > Len(ws) THEN << >>
    ELSE (IF i \in S THEN << ws[i] >> ELSE << >>) \o Pick(ws, S, i + 1)

Persisted(dk, ws) == { ApplyAll(dk, Pick(ws, S, 1)) : S \in SUBSET (1..Len(ws)) }

\* a faulty set: the record is deleted, then written
setWritesDelFirst(d, key, value, force) ==
    IF ~force /\ Has(d, Encode(key)) THEN << >>
    ELSE << Write("del", Encode(key), << >>),
            Write("put", Encode(key), Encode(Normalize(value))) >>

\* set, lines 70 to 80
setWrites(d, key, value, force) ==
    LET key_bin == Encode(key)
        value_bin == Encode(Normalize(value))
    IN IF ~force /\ Has(d, key_bin) THEN << >>
       ELSE << Write("put", key_bin, value_bin) >>

\* delete, lines 112 to 117
deleteWrites(d, key) ==
    LET key_bin == Encode(key)
    IN IF ~Has(d, key_bin) THEN << >> ELSE << Write("del", key_bin, << >>) >>

\* a faulty rename: the old record is deleted, then the new one written
renameWritesDelFirst(d, old_key, new_key, force) ==
    LET old_key_bin == Encode(old_key)
        new_key_bin == Encode(new_key)
    IN IF ~Has(d, old_key_bin) \/ (~force /\ Has(d, new_key_bin)) THEN << >>
       ELSE << Write("del", old_key_bin, << >>),
               Write("put", new_key_bin, d[old_key_bin]) >>

\* rename, lines 129 to 144
renameWrites(d, old_key, new_key, force) ==
    LET old_key_bin == Encode(old_key)
        new_key_bin == Encode(new_key)
    IN IF ~Has(d, old_key_bin) \/ (~force /\ Has(d, new_key_bin)) THEN << >>
       ELSE << Write("put", new_key_bin, d[old_key_bin]),
               Write("del", old_key_bin, << >>) >>

\* restore, lines 177 to 190: the set of one line
lineWrites(d, raw, force) ==
    LET line == rstrip(raw, LF)
        parts == split(line, TAB, 1)
    IN IF line = << >> \/ Len(parts) # 2 THEN << >>
       ELSE setWrites(d, parts[1], parts[2], force)

(***************************************************************************)
(* The inputs of the commands.                                             *)
(***************************************************************************)
\* KEY arguments
Keys == { << >>, << "a" >>, << "b" >> }

\* VALUE arguments: plain, ending in "\r\n", holding a tab
Values == { << "a" >>, << "b", CR, LF >>, << "a", TAB, "b" >> }

\* the lines a restore input is made of (without their "\n"): empty,
\* without a tab (and ending in "\r"), a record of the key a, another
\* record of the key a with a tab in its value, a record with an empty key
InputLines ==
    { << >>, << "b", CR >>, << "a", TAB, "a" >>, << "a", TAB, "a", TAB, "b" >>,
      << TAB, "a" >> }

RECURSIVE JoinLines(_)
JoinLines(ls) ==
    IF ls = << >> THEN << >> ELSE Head(ls) \o << LF >> \o JoinLines(Tail(ls))

\* the input files: up to MaxLines lines, or no file at all
Texts == { JoinLines(ls) : ls \in UNION { [1..n -> InputLines] : n \in 0..MaxLines } }

Files == { [exists |-> TRUE, text |-> t] : t \in Texts }
            \cup { [exists |-> FALSE, text |-> << >>] }

\* the engine calls that may raise DBError; a command is given a fault only
\* where it makes that call
Faults(kinds) == IF engineFaults THEN kinds \cup {"none"} ELSE {"none"}

LineFaults ==
    IF engineFaults
    THEN { NoFault } \cup { [line |-> n, kind |-> k] : n \in 1..MaxLines, k \in {"put", "sync"} }
    ELSE { NoFault }

(***************************************************************************)
(* The state: the engine's view of the store, the file on disk, and the    *)
(* record of the last command (its arguments, the store before it, what    *)
(* it returned and wrote).                                                 *)
(***************************************************************************)
NoOp ==
    [op |-> "none", key |-> << >>, new_key |-> << >>, value |-> << >>,
     force |-> FALSE, file |-> [exists |-> FALSE, text |-> << >>],
     fault |-> NoFault, pre |-> EmptyDB, ok |-> TRUE, res |-> "Ok",
     got |-> None, out |-> << >>, err |-> << >>, count |-> 0, log |-> << >>,
     durable |-> TRUE, end |-> "none", issued |-> << >>]

\* what is left of the record once the process has ended: the command, what
\* it returned and what it wrote on the error stream
Ended(l, how) ==
    [NoOp EXCEPT !.op = l.op, !.ok = l.ok, !.res = l.res, !.err = l.err,
                 !.end = how]

Fits(d) == Cardinality(DOMAIN d) <= MaxRecords

\* the set of line n of the restore raised DBError
Failed(log, n) == n <= Len(log) /\ log[n].kind = "failed"

\* the command op has just returned
Ran(op) == pc = "ran" /\ last.op = op

(***************************************************************************)
(* The process: whether it was given --temp-db, the scratch directory made *)
(* for it, the directory the tool was told to remove, the handle self.db,  *)
(* the exit hook, the calls of BDBTool.close and of the engine's close,    *)
(* and the exit status.                                                    *)
(***************************************************************************)
\* main up to the command: mkdtemp under --temp-db, BDBTool.__init__ opened
\* the store and registered the exit hook, main gave the tool the directory
Started(temp) ==
    [temp |-> temp, tempDir |-> IF temp THEN "exists" ELSE "none",
     toClean |-> temp, handle |-> "open", atexit |-> TRUE, engineCloses |-> 0,
     closeCalls |-> 0, status |-> 0]

\* main when BDBTool.__init__ could not open the store: sys.exit(1) before
\* the exit hook is registered and before the tool is given the directory
OpenFailed(temp) ==
    [Started(temp) EXCEPT !.toClean = FALSE, !.handle = "none",
                          !.atexit = FALSE, !.status = 1]

\* a faulty close: the handle is not cleared
closeKeepHandle(p) ==
    [p EXCEPT !.engineCloses = IF p.handle = "open" THEN @ + 1 ELSE @,
              !.closeCalls = @ + 1,
              !.tempDir = IF p.toClean /\ @ = "exists" THEN "removed" ELSE @,
              !.toClean = IF p.toClean /\ p.tempDir = "exists" THEN FALSE ELSE @]

\* BDBTool.close on the process record: the engine's close is called when the
\* handle is set and the handle is cleared whether it raised or not; the
\* directory is removed when the tool was given one and it exists
close(p) ==
    [p EXCEPT !.handle = "none",
              !.engineCloses = IF p.handle = "open" THEN @ + 1 ELSE @,
              !.closeCalls = @ + 1,
              !.tempDir = IF p.toClean /\ @ = "exists" THEN "removed" ELSE @,
              !.toClean = IF p.toClean /\ p.tempDir = "exists" THEN FALSE ELSE @]

\* the exit status of main: 1 when the command returned False
ExitStatus(success) == IF success THEN 0 ELSE 1

\* BDBTool.__init__ on a path that holds no file yet
Init ==
    /\ db = EmptyDB
    /\ disk = EmptyDB
    /\ pc = "opened"
    /\ last = NoOp
    /\ engineFaults = FALSE
    /\ proc = Started(FALSE)

\* set KEY VALUE
SetCmd ==
    \E key \in Keys, value \in Values, force \in BOOLEAN, fault \in Faults({"put", "sync"}) :
        LET r == set(db, disk, key, value, force, fault)
        IN /\ pc = "opened"
           /\ fault # "none" => r.res = "IOError"
           /\ Fits(r.db)
           /\ db' = r.db
           /\ disk' = r.disk
           /\ last' = [NoOp EXCEPT !.op = "set", !.key = key, !.value = value,
                                   !.force = force, !.fault.kind = fault, !.pre = db,
                                   !.ok = r.ok, !.res = r.res, !.err = r.err]
           /\ pc' = "ran"
           /\ UNCHANGED << engineFaults, proc >>

\* get KEY
GetCmd ==
    \E key \in Keys :
        LET value == get(db, key)
        IN /\ pc = "opened"
           /\ pc' = "ran"
           /\ last' = [NoOp EXCEPT !.op = "get", !.key = key, !.pre = db,
                                   !.got = value, !.ok = value.found,
                                   !.res = IF value.found THEN "Ok" ELSE "NotFound",
                                   !.out = IF value.found THEN value.value \o << LF >>
                                           ELSE << >>,
                                   !.err = IF value.found THEN << >>
                                           ELSE << Msg("NotFound", 0, key) >>]
           /\ UNCHANGED << db, disk, engineFaults, proc >>

\* delete KEY
DeleteCmd ==
    \E key \in Keys, fault \in Faults({"del", "sync"}) :
        LET r == delete(db, disk, key, fault)
        IN /\ pc = "opened"
           /\ fault # "none" => r.res = "IOError"
           /\ db' = r.db
           /\ disk' = r.disk
           /\ last' = [NoOp EXCEPT !.op = "delete", !.key = key, !.fault.kind = fault,
                                   !.pre = db, !.ok = r.ok, !.res = r.res,
                                   !.err = r.err]
           /\ pc' = "ran"
           /\ UNCHANGED << engineFaults, proc >>

\* rename OLD_KEY NEW_KEY
RenameCmd ==
    \E old_key \in Keys, new_key \in Keys, force \in BOOLEAN,
       fault \in Faults({"put", "del", "sync"}) :
        LET r == rename(db, disk, old_key, new_key, force, fault)
        IN /\ pc = "opened"
           /\ fault # "none" => r.res = "IOError"
           /\ db' = r.db
           /\ disk' = r.disk
           /\ last' = [NoOp EXCEPT !.op = "rename", !.key = old_key,
                                   !.new_key = new_key, !.force = force,
                                   !.fault.kind = fault, !.pre = db, !.ok = r.ok,
                                   !.res = r.res, !.err = r.err]
           /\ pc' = "ran"
           /\ UNCHANGED << engineFaults, proc >>

\* dump
DumpCmd ==
    \E order \in Orders(db) :
        /\ pc = "opened"
        /\ pc' = "ran"
        /\ last' = [NoOp EXCEPT !.op = "dump", !.pre = db, !.out = dump(db, order)]
        /\ UNCHANGED << db, disk, engineFaults, proc >>

\* restore INPUT_FILE
RestoreCmd ==
    \E file \in Files, force \in BOOLEAN, fault \in LineFaults :
        LET r == restore(db, disk, file, force, fault)
        IN /\ pc = "opened"
           /\ fault # NoFault => Failed(r.log, fault.line)
           /\ Fits(r.db)
           /\ db' = r.db
           /\ disk' = r.disk
           /\ last' = [NoOp EXCEPT !.op = "restore", !.file = file, !.force = force,
                                   !.fault = fault, !.pre = db, !.ok = r.ok,
                                   !.res = r.res, !.err = r.err, !.count = r.count,
                                   !.log = r.log, !.durable = r.durable]
           /\ pc' = "ran"
           /\ UNCHANGED << engineFaults, proc >>

\* BDBTool.close at the end of the command, called by __exit__: the engine's
\* close writes what it holds to the file, or raises DBError, a warning is
\* written and the unwritten changes are lost
Close ==
    \E fault \in Faults({"close"}) :
        /\ pc = "ran"
        /\ pc' = "closed"
        /\ disk' = IF fault = "close" THEN disk ELSE db
        /\ db' = IF fault = "close" THEN disk ELSE db
        /\ last' = IF fault = "close"
                   THEN [Ended(last, "closeError") EXCEPT
                             !.err = Append(@, Msg("CloseWarning", 0, << >>))]
                   ELSE Ended(last, "closed")
        /\ proc' = close(proc)
        /\ UNCHANGED engineFaults

\* the interpreter exits: the exit hook calls BDBTool.close again, the status
\* is 1 when main called sys.exit(1)
AtExit ==
    /\ pc = "closed"
    /\ last.end \notin {"killed", "killedIn"}
    /\ pc' = "exited"
    /\ proc' = [close(proc) EXCEPT !.status = ExitStatus(last.ok)]
    /\ UNCHANGED << db, disk, last, engineFaults >>

\* the process is killed after its command returned: nothing more is written
Crash ==
    /\ pc = "ran"
    /\ pc' = "closed"
    /\ db' = disk
    /\ last' = Ended(last, "killed")
    /\ UNCHANGED << disk, engineFaults, proc >>

\* the next process: under --temp-db main makes a new directory; then
\* BDBTool.__init__ opens the file, or hashopen raises DBError and the
\* process exits with status 1
Open ==
    \E fault \in Faults({"open"}) :
        /\ pc = "exited" \/ (pc = "closed" /\ last.end \in {"killed", "killedIn"})
        /\ pc' = IF fault = "open" THEN "exited" ELSE "opened"
        /\ disk' = IF proc.temp THEN EmptyDB ELSE disk
        /\ db' = disk'
        /\ last' = IF fault = "open"
                   THEN [NoOp EXCEPT !.op = "open", !.ok = FALSE, !.res = "IOError",
                                     !.err = << Msg("OpenError", 0, << >>) >>,
                                     !.end = "openError"]
                   ELSE NoOp
        /\ proc' = IF fault = "open" THEN OpenFailed(proc.temp) ELSE Started(proc.temp)
        /\ UNCHANGED engineFaults

Next ==
    \/ SetCmd \/ GetCmd \/ DeleteCmd \/ RenameCmd \/ DumpCmd \/ RestoreCmd
    \/ Close \/ AtExit \/ Crash \/ Open

\* the commands on an engine that never raises DBError
Spec == Init /\ [][Next]_vars

\* the commands on an engine whose writes and syncs may raise DBError
InitFault ==
    /\ db = EmptyDB
    /\ disk = EmptyDB
    /\ pc = "opened"
    /\ last = NoOp
    /\ engineFaults = TRUE
    /\ proc = Started(FALSE)

SpecFault == InitFault /\ [][Next]_vars

\* the commands under --temp-db: every process works in a scratch directory
\* of its own, on an engine that may raise DBError
InitTemp ==
    /\ db = EmptyDB
    /\ disk = EmptyDB
    /\ pc = "opened"
    /\ last = NoOp
    /\ engineFaults = TRUE
    /\ proc = Started(TRUE)

SpecTemp == InitTemp /\ [][Next]_vars

(***************************************************************************)
(* The process is killed inside a command: after it has issued the first   *)
(* n of the command's writes and before sync() has returned.               *)
(***************************************************************************)
\* the record of a command killed with the writes issued
KilledIn(op, issued) ==
    [NoOp EXCEPT !.op = op, !.pre = db, !.ok = FALSE, !.res = "Killed",
                 !.end = "killedIn", !.issued = issued]

SetKilled ==
    /\ pc = "opened"
    /\ \E key \in Keys, value \in Values, force \in BOOLEAN :
        LET ws == setWrites(db, key, value, force)
        IN \E n \in 0..Len(ws) : \E dk \in Persisted(disk, SubSeq(ws, 1, n)) :
            /\ Fits(ApplyAll(db, ws))
            /\ pc' = "closed"
            /\ disk' = dk
            /\ db' = dk
            /\ last' = [KilledIn("set", SubSeq(ws, 1, n)) EXCEPT
                            !.key = key, !.value = value, !.force = force]
            /\ UNCHANGED << engineFaults, proc >>

DeleteKilled ==
    /\ pc = "opened"
    /\ \E key \in Keys :
        LET ws == deleteWrites(db, key)
        IN \E n \in 0..Len(ws) : \E dk \in Persisted(disk, SubSeq(ws, 1, n)) :
            /\ pc' = "closed"
            /\ disk' = dk
            /\ db' = dk
            /\ last' = [KilledIn("delete", SubSeq(ws, 1, n)) EXCEPT !.key = key]
            /\ UNCHANGED << engineFaults, proc >>

RenameKilled ==
    /\ pc = "opened"
    /\ \E old_key \in Keys, new_key \in Keys, force \in BOOLEAN :
        LET ws == renameWrites(db, old_key, new_key, force)
        IN \E n \in 0..Len(ws) : \E dk \in Persisted(disk, SubSeq(ws, 1, n)) :
            /\ pc' = "closed"
            /\ disk' = dk
            /\ db' = dk
            /\ last' = [KilledIn("rename", SubSeq(ws, 1, n)) EXCEPT
                            !.key = old_key, !.new_key = new_key, !.force = force]
            /\ UNCHANGED << engineFaults, proc >>

\* killed in the pass of the loop for line line_num, the lines before it done
RestoreKilled ==
    /\ pc = "opened"
    /\ \E file \in Files, force \in BOOLEAN :
        LET lines == FileLines(file.text)
            start == [db |-> db, disk |-> disk, count |-> 0, err |-> << >>,
                      log |-> << >>, durable |-> TRUE]
        IN \E line_num \in 1..Len(lines) :
            LET acc == restoreLoop(SubSeq(lines, 1, line_num - 1), 1, start, force, NoFault)
                ws == lineWrites(acc.db, lines[line_num], force)
            IN \E n \in 0..Len(ws) : \E dk \in Persisted(acc.disk, SubSeq(ws, 1, n)) :
                /\ file.exists
                /\ Fits(ApplyAll(acc.db, ws))
                /\ pc' = "closed"
                /\ disk' = dk
                /\ db' = dk
                /\ last' = [KilledIn("restore", SubSeq(ws, 1, n)) EXCEPT
                                !.file = file, !.force = force,
                                !.fault = [line |-> line_num, kind |-> "kill"],
                                !.err = acc.err, !.count = acc.count]
                /\ UNCHANGED << engineFaults, proc >>

(***************************************************************************)
(* The input stream of restore fails: the read of a line raises OSError.   *)
(***************************************************************************)
RestoreReadError ==
    /\ pc = "opened"
    /\ \E file \in Files, force \in BOOLEAN :
        \E line_num \in 1..(Len(FileLines(file.text)) + 1) :
            LET fault == [line |-> line_num, kind |-> "read"]
                r == restore(db, disk, file, force, fault)
            IN /\ file.exists
               /\ Fits(r.db)
               /\ db' = r.db
               /\ disk' = r.disk
               /\ last' = [NoOp EXCEPT !.op = "restore", !.file = file,
                                       !.force = force, !.fault = fault, !.pre = db,
                                       !.ok = r.ok, !.res = r.res, !.err = r.err,
                                       !.count = r.count, !.log = r.log,
                                       !.durable = r.durable]
               /\ pc' = "ran"
               /\ UNCHANGED << engineFaults, proc >>

NextStream == Next \/ RestoreReadError

SpecStream == Init /\ [][NextStream]_vars

NextKill ==
    \/ Next
    \/ SetKilled \/ DeleteKilled \/ RenameKilled \/ RestoreKilled

SpecKill == Init /\ [][NextKill]_vars

(***************************************************************************)
(* Dump and restore into a fresh store (tests/test_bdb_tool.py,            *)
(* test_dump_and_restore): the store is any store that set can build, the  *)
(* output of dump is the input file of restore on a new, empty store.      *)
(***************************************************************************)
\* the keys of the dumped store: those of the commands, and keys holding a
\* tab, a newline, a carriage return
DumpKeys == Keys \cup { << "a", TAB >>, << "b", LF >>, << "b", CR >> }

\* the values set stores: empty, plain, ending in a space, holding a tab
StoredValues == { << >>, << "a" >>, << "b", SP >>, << "a", TAB, "b" >> }

Stores ==
    UNION { [ks -> { Encode(v) : v \in StoredValues }] :
              ks \in { S \in SUBSET { Encode(k) : k \in DumpKeys } :
                         Cardinality(S) <= MaxRecords } }

InitDump ==
    /\ db \in Stores
    /\ disk = db
    /\ pc = "opened"
    /\ last = NoOp
    /\ engineFaults = FALSE
    /\ proc = Started(FALSE)

\* restore FILE on a new store, FILE holding what the dump wrote
RestoreDump ==
    /\ Ran("dump")
    /\ LET file == [exists |-> TRUE, text |-> last.out]
           r == restore(EmptyDB, EmptyDB, file, FALSE, NoFault)
       IN /\ db' = r.db
          /\ disk' = r.disk
          /\ last' = [NoOp EXCEPT !.op = "roundtrip", !.file = file, !.pre = db,
                                  !.ok = r.ok, !.res = r.res, !.err = r.err,
                                  !.count = r.count, !.log = r.log,
                                  !.durable = r.durable]
    /\ pc' = "ran"
    /\ UNCHANGED << engineFaults, proc >>

NextDump == DumpCmd \/ RestoreDump

SpecDump == InitDump /\ [][NextDump]_vars

(***************************************************************************)
(* The claims.                                                             *)
(***************************************************************************)
\* Get(k) on the store d: found or not, and the value
Present(d, k) == get(d, k).found

\* the records of d other than that of the key k are those of e
SameButFor(d, e, k) ==
    /\ (DOMAIN d) \ {Encode(k)} = (DOMAIN e) \ {Encode(k)}
    /\ \A x \in (DOMAIN d) \ {Encode(k)} : d[x] = e[x]

\* v with every carriage return removed and every newline replaced by a space
Expected(v) ==
    LET w == SelectSeq(v, LAMBDA c : c # CR)
    IN [i \in 1..Len(w) |-> IF w[i] = LF THEN SP ELSE w[i]]

\* C1: Set(k, v, force=false) on a key that is present fails with
\* AlreadyExists and leaves the store unchanged: Get(k) returns the value k
\* held before the call.
C1_SetExistingFails ==
    (Ran("set") /\ ~last.force /\ Present(last.pre, last.key))
        => /\ ~last.ok
           /\ last.res = "AlreadyExists"
           /\ db = last.pre
           /\ disk = last.pre
           /\ get(db, last.key) = get(last.pre, last.key)

\* a set without force of a new value for a key that is present
C1_Witness ==
    /\ Ran("set") /\ ~last.force /\ Present(last.pre, last.key)
    /\ get(last.pre, last.key).value # Expected(last.value)

\* C2: whenever Set(k, v, force) succeeds (k absent, or force=true), the next
\* Get(k) returns v with every carriage return removed and every newline
\* replaced by one space, and no other key's value changes.
C2_SetThenGet ==
    Ran("set") =>
        /\ (last.force \/ ~Present(last.pre, last.key)) => last.ok
        /\ last.ok =>
              /\ get(db, last.key) = [found |-> TRUE, value |-> Expected(last.value)]
              /\ SameButFor(db, last.pre, last.key)

\* a forced set of a value with "\r\n" over a key that is present, beside
\* another record
C2_Witness ==
    /\ Ran("set") /\ last.ok /\ last.force /\ Present(last.pre, last.key)
    /\ Expected(last.value) # last.value
    /\ Cardinality(DOMAIN db) > 1

\* C3 (the state after Delete): Delete(k) fails with NotFound and changes
\* nothing when k is absent; when k is present it removes exactly that record
\* and Get(k) yields NotFound.
C3_DeleteState ==
    Ran("delete") =>
        IF Present(last.pre, last.key)
        THEN /\ last.ok
             /\ ~Present(db, last.key)
             /\ SameButFor(db, last.pre, last.key)
             /\ disk = db
        ELSE /\ ~last.ok
             /\ last.res = "NotFound"
             /\ db = last.pre
             /\ disk = last.pre

\* C3 (afterwards): a key that Get reports as NotFound is found again only
\* by a step that is a Set, a Rename or a Restore.
C3_DeleteStep ==
    \A k \in Keys :
        (~Present(db, k) /\ Present(db', k))
            => (pc' = "ran" /\ last'.op \in {"set", "rename", "restore"})

\* C3: Delete(k) fails with NotFound and changes nothing when k is absent;
\* when k is present it removes exactly that record (all other records
\* unchanged), and after it Get(k) yields NotFound until some later Set,
\* Rename or Restore writes k again.
C3_Delete == [] C3_DeleteState /\ [][C3_DeleteStep]_vars

\* a delete that removed one record of two
C3_Witness ==
    Ran("delete") /\ last.ok /\ Cardinality(DOMAIN last.pre) = 2 /\ Cardinality(DOMAIN db) = 1

\* C4: Rename(a, b, force=false) with a and b both present fails with
\* AlreadyExists and leaves the store unchanged: a and b keep their values.
C4_RenameExistingFails ==
    (Ran("rename") /\ ~last.force /\ Present(last.pre, last.key)
        /\ Present(last.pre, last.new_key))
        => /\ ~last.ok
           /\ last.res = "AlreadyExists"
           /\ db = last.pre
           /\ disk = last.pre
           /\ get(db, last.key) = get(last.pre, last.key)
           /\ get(db, last.new_key) = get(last.pre, last.new_key)

\* a rename without force between two present keys of different values
C4_Witness ==
    /\ Ran("rename") /\ ~last.force /\ last.key # last.new_key
    /\ Present(last.pre, last.key) /\ Present(last.pre, last.new_key)
    /\ get(last.pre, last.key) # get(last.pre, last.new_key)

\* C5 as stated: whenever Rename(a, b, force) succeeds, Get(b) returns the
\* value a held before the call and Get(a) fails with NotFound, for every a
\* and b (a = b included).
C5_Original ==
    (Ran("rename") /\ last.ok)
        => /\ get(db, last.new_key) = get(last.pre, last.key)
           /\ Present(db, last.new_key)
           /\ ~Present(db, last.key)

\* C5 amended: for all distinct keys a and b with a present, Rename(a, b,
\* force) succeeds when b is absent or force=true, and afterwards Get(b)
\* returns the value a held before the call, Get(a) fails with NotFound and
\* no other record has changed.
C5_RenameMoves ==
    (Ran("rename") /\ last.key # last.new_key /\ Present(last.pre, last.key))
        => /\ (last.force \/ ~Present(last.pre, last.new_key)) => last.ok
           /\ last.ok =>
                 /\ get(db, last.new_key) = get(last.pre, last.key)
                 /\ ~Present(db, last.key)
                 /\ SameButFor(Del(db, Encode(last.new_key)),
                               Del(last.pre, Encode(last.new_key)), last.key)

\* a forced rename onto another present key that held another value
C5_Witness ==
    /\ Ran("rename") /\ last.ok /\ last.force /\ last.key # last.new_key
    /\ Present(last.pre, last.new_key)
    /\ get(last.pre, last.key) # get(last.pre, last.new_key)

\* the keys of d are not empty
NonEmptyKeys(d) == \A kb \in DOMAIN d : kb # << >>

\* no key of d holds a tab, a carriage return or a newline
PlainKeys(d) ==
    \A kb \in DOMAIN d : \A i \in 1..Len(kb) : Decode(kb)[i] \notin {TAB, CR, LF}

\* the restore applied N records and rebuilt the dumped store
Reproduced ==
    /\ last.count = Cardinality(DOMAIN last.pre)
    /\ DOMAIN db = DOMAIN last.pre
    /\ \A kb \in DOMAIN last.pre :
          get(db, Decode(kb)).value = Expected(Decode(last.pre[kb]))

\* C6 as stated: for every store of N records with non-empty keys, Restore of
\* the output of Dump on a fresh store reports N applied records and yields
\* the original keys with their original normalized values and no other key.
C6_Original == (Ran("roundtrip") /\ NonEmptyKeys(last.pre)) => Reproduced

\* the round trip does reproduce the stores whose keys are non-empty and
\* hold no tab, no carriage return and no newline
RoundTripOfPlainKeys ==
    (Ran("roundtrip") /\ NonEmptyKeys(last.pre) /\ PlainKeys(last.pre)) => Reproduced

(***************************************************************************)
(* What a restore input says, read off its text.                           *)
(***************************************************************************)
\* a line without its trailing newline
Content(raw) ==
    IF raw # << >> /\ raw[Len(raw)] = LF THEN SubSeq(raw, 1, Len(raw) - 1) ELSE raw

Tabs(c) == { i \in 1..Len(c) : c[i] = TAB }

FirstTab(c) == CHOOSE i \in Tabs(c) : \A j \in Tabs(c) : i <= j

KeyOf(c) == SubSeq(c, 1, FirstTab(c) - 1)

ValueOf(c) == SubSeq(c, FirstTab(c) + 1, Len(c))

\* the lines of the input of the restore that has just returned
InLines == FileLines(last.file.text)

\* line i is neither empty nor without a tab
ValidAt(i) == Content(InLines[i]) # << >> /\ Tabs(Content(InLines[i])) # {}

\* the warnings that carry the line number i
WarningsOf(i) ==
    { j \in 1..Len(last.err) : last.err[j].kind = "Warning" /\ last.err[j].line = i }

AppliedLines == { i \in 1..Len(last.log) : last.log[i].kind = "applied" }

\* the key of the valid line i was in the store when the line was reached
PresentBefore(i) ==
    \/ Present(last.pre, KeyOf(Content(InLines[i])))
    \/ \E j \in AppliedLines : j < i /\ last.log[j].key = KeyOf(Content(InLines[i]))

\* the valid lines of the key k
LinesOf(k) == { i \in 1..Len(InLines) : ValidAt(i) /\ KeyOf(Content(InLines[i])) = k }

\* C7: Restore processes every line of a readable input in order and never
\* stops at a bad line: an empty line is skipped with no warning; a non-empty
\* line without a tab is skipped with exactly one warning carrying its
\* 1-based line number; every other line is passed to Set; the reported count
\* is the number of lines whose Set succeeded.
C7_RestoreLines ==
    (Ran("restore") /\ last.file.exists) =>
        /\ last.ok
        /\ Len(last.log) = Len(InLines)
        /\ \A i \in 1..Len(InLines) :
              /\ last.log[i].num = i
              /\ IF Content(InLines[i]) = << >>
                 THEN last.log[i].kind = "empty" /\ WarningsOf(i) = {}
                 ELSE IF Tabs(Content(InLines[i])) = {}
                 THEN last.log[i].kind = "invalid" /\ Cardinality(WarningsOf(i)) = 1
                 ELSE /\ last.log[i].kind \in {"applied", "rejected"}
                      /\ last.log[i].key = KeyOf(Content(InLines[i]))
                      /\ last.log[i].value = ValueOf(Content(InLines[i]))
                      /\ WarningsOf(i) = {}
        /\ \A j, k \in 1..Len(last.err) :
              (j < k /\ last.err[j].kind = "Warning" /\ last.err[k].kind = "Warning")
                  => last.err[j].line < last.err[k].line
        /\ last.count = Cardinality(AppliedLines)
        /\ last.err[Len(last.err)] = Msg("Summary", last.count, << >>)

\* a restore whose first line is bad and whose second line is applied
C7_Witness ==
    /\ Ran("restore") /\ Len(last.log) = 2
    /\ last.log[1].kind = "invalid" /\ last.log[2].kind = "applied"

C9_RestoreCollision ==
    (Ran("restore") /\ last.file.exists) =>
        /\ Len(last.log) = Len(InLines)
        /\ last.count = Cardinality(AppliedLines)
        /\ \A i \in 1..Len(InLines) :
              ValidAt(i) =>
                  (last.log[i].kind = "applied" <=> (last.force \/ ~PresentBefore(i)))
        /\ \A k \in Keys :
              IF LinesOf(k) = {} \/ (~last.force /\ Present(last.pre, k))
              THEN get(db, k) = get(last.pre, k)
              ELSE LET i == IF last.force
                            THEN CHOOSE x \in LinesOf(k) : \A y \in LinesOf(k) : y <= x
                            ELSE CHOOSE x \in LinesOf(k) : \A y \in LinesOf(k) : x <= y
                   IN get(db, k) = [found |-> TRUE,
                                    value |-> Expected(ValueOf(Content(InLines[i])))]

\* without force, a line whose key held another value is rejected and the
\* line after it is applied
C9_Witness ==
    /\ Ran("restore") /\ ~last.force /\ Len(last.log) = 2
    /\ last.log[1].kind = "rejected" /\ last.log[2].kind = "applied"
    /\ Present(last.pre, last.log[1].key)
    /\ get(db, last.log[1].key).value # Expected(last.log[1].value)

(***************************************************************************)
(* Durability, on an engine that may raise DBError (SpecFault).            *)
(***************************************************************************)
\* the record of the key k in the file
OnDisk(k) == get(disk, k)

\* C10 (when the command returns): after a successful Set, Delete, Rename
\* the file equals the engine's view and holds the effect; in a Restore the
\* file held each applied line when its Set returned.
C10_DurableState ==
    /\ (Ran("set") /\ last.ok)
          => /\ disk = db
             /\ OnDisk(last.key) = [found |-> TRUE, value |-> Expected(last.value)]
    /\ (Ran("delete") /\ last.ok)
          => /\ disk = db
             /\ ~OnDisk(last.key).found
    /\ (Ran("rename") /\ last.ok)
          => /\ disk = db
             /\ ~OnDisk(last.key).found
             /\ last.key # last.new_key => OnDisk(last.new_key) = get(last.pre, last.key)
    /\ Ran("restore")
          => /\ last.durable
             /\ (last.log # << >> /\ last.log[Len(last.log)].kind = "applied")
                   => disk = db

\* C10 (a crash after the return): however the process ends after a
\* successful Set, Delete or Rename, the store the next process opens is the
\* store the command left.
C10_DurableStep ==
    (pc = "ran" /\ last.ok /\ last.op \in {"set", "delete", "rename"} /\ pc' = "closed")
        => (disk' = db /\ db' = db)

\* C10: in every state in which Set, Delete, Rename or an applied Restore
\* line has returned success, the on-disk contents equal the in-memory
\* contents including that operation's effect, so a crash at any point after
\* the return loses nothing of that operation.
C10_Durability == [] C10_DurableState /\ [][C10_DurableStep]_vars

\* the process was killed after a successful set
C10_Witness ==
    /\ pc = "closed" /\ last.end = "killed" /\ last.op = "set" /\ last.ok
    /\ DOMAIN disk # {}


(***************************************************************************)
(* The process: closing, the scratch directory, the exit status.           *)
(***************************************************************************)
\* the process ran a command and left through __exit__
Left == pc \in {"closed", "exited"} /\ last.end \in {"closed", "closeError"}

\* C11: Close is idempotent: after the calls of close a process makes (the
\* context-manager exit, then the exit hook) the handle is released and the
\* engine's close was invoked exactly once, whether it raised or not; close
\* on a released handle calls the engine no more and changes nothing
C11_CloseIdempotent ==
    /\ Left => /\ proc.handle = "none"
               /\ proc.engineCloses = 1
               /\ proc.closeCalls = IF pc = "closed" THEN 1 ELSE 2
    /\ proc.handle = "none" =>
           LET q == close(proc)
           IN /\ q.handle = "none"
              /\ q.engineCloses = proc.engineCloses
              /\ (proc.closeCalls > 0 => q.tempDir = proc.tempDir)

\* the exit hook has called close after __exit__ did, the engine's close
\* having raised DBError
C11_Witness ==
    pc = "exited" /\ last.end = "closeError" /\ proc.closeCalls = 2

\* C12: under --temp-db the scratch directory is removed on every exit path:
\* once the process has exited, after a command that succeeded, after a
\* command that failed, or because the store could not be opened, the
\* directory is gone
C12_Original ==
    (proc.temp /\ pc = "exited") => proc.tempDir = "removed"

\* the directory is removed by the first close of a process that opened its
\* store, whatever the command returned
TempDirRemovedAfterCommand ==
    (proc.temp /\ Left) => proc.tempDir = "removed"

\* the error stream holds a not-found, an already-exists or an I/O failure
Reported(err) ==
    \E i \in 1..Len(err) :
        err[i].kind \in {"NotFound", "AlreadyExists", "IOError", "FileNotFound",
                         "ReadError", "OpenError"}

\* the error stream holds nothing but warnings about malformed lines and the
\* summary
OnlyMalformed(err) ==
    /\ \A i \in 1..Len(err) : err[i].kind \in {"Warning", "Summary"}
    /\ \E i \in 1..Len(err) : err[i].kind = "Warning"

\* C13: the process exits with status 1 whenever the command reported a
\* not-found, an already-exists or an I/O failure on the error stream, and
\* with status 0 only when no such failure was reported; a restore whose
\* only problems are malformed lines exits with status 0
C13_Original ==
    pc = "exited" =>
        /\ Reported(last.err) <=> proc.status = 1
        /\ (last.op = "restore" /\ OnlyMalformed(last.err)) => proc.status = 0

\* the status is 1 exactly when the command method returned False (for get,
\* when the key was not found); a restore that only met malformed lines
\* exits with status 0
ExitStatusFollowsResult ==
    pc = "exited" =>
        /\ proc.status = 1 <=> ~last.ok
        /\ (last.op = "restore" /\ OnlyMalformed(last.err)) => proc.status = 0

\* C14: in every reachable state every key of the store is non-empty: set,
\* rename and restore never create a record with an empty key, and restore
\* treats a line whose key part is empty as invalid: it hands no such line to
\* set, whether set would apply or reject it
C14_Original ==
    /\ \A kb \in DOMAIN db : kb # << >>
    /\ Ran("restore") =>
           \A i \in 1..Len(last.log) :
               last.log[i].kind \in {"applied", "rejected", "failed"}
                   => last.log[i].key # << >>

\* restore has applied and counted a line whose key part is empty
EmptyKeyRestored ==
    /\ Ran("restore")
    /\ last.count = 1
    /\ \E i \in 1..Len(last.log) :
           last.log[i].kind = "applied" /\ last.log[i].key = << >>
    /\ Encode(<< >>) \in DOMAIN db
    /\ Encode(<< >>) \notin DOMAIN last.pre

(***************************************************************************)
(* The error stream of restore.                                            *)
(***************************************************************************)
\* the lines of the restore that has just returned which became kind
LinesOfKind(kind) == { i \in 1..Len(last.log) : last.log[i].kind = kind }

\* the messages of the restore that has just returned which have the kind
MessagesOfKind(kind) == { j \in 1..Len(last.err) : last.err[j].kind = kind }

\* C15 as stated: during restore a valid line rejected by the collision
\* policy produces no message on the error stream; the number of messages
\* before the final summary equals the number of malformed lines
C15_Original ==
    (Ran("restore") /\ last.file.exists) =>
        /\ LinesOfKind("rejected") # {} => MessagesOfKind("AlreadyExists") = {}
        /\ Len(last.err) - 1 = Cardinality(LinesOfKind("invalid"))

\* C15: during restore a valid line rejected by the collision policy
\* produces one already-exists message naming its key, as a malformed line
\* produces one warning; the number of messages before the final summary
\* equals the number of malformed lines plus the number of rejected lines
C15_RestoreMessages ==
    (Ran("restore") /\ last.file.exists) =>
        /\ last.err[Len(last.err)].kind = "Summary"
        /\ Len(last.err) - 1
             = Cardinality(LinesOfKind("invalid")) + Cardinality(LinesOfKind("rejected"))
        /\ Cardinality(MessagesOfKind("Warning")) = Cardinality(LinesOfKind("invalid"))
        /\ Cardinality(MessagesOfKind("AlreadyExists"))
             = Cardinality(LinesOfKind("rejected"))
        /\ \A k \in Keys :
              Cardinality({ j \in MessagesOfKind("AlreadyExists") : last.err[j].key = k })
                = Cardinality({ i \in LinesOfKind("rejected") : last.log[i].key = k })

\* a restore met a malformed line and then a line rejected by the collision
\* policy
C15_Witness ==
    /\ Ran("restore") /\ ~last.force /\ Len(last.log) = 2
    /\ last.log[1].kind = "invalid" /\ last.log[2].kind = "rejected"
    /\ Len(last.err) = 3

(***************************************************************************)
(* The process killed inside a command (SpecKill).                         *)
(***************************************************************************)
\* the process has been killed inside the command op
KilledInOp(op) == pc = "closed" /\ last.end = "killedIn" /\ last.op = op

\* the store after the first m lines of the file of the killed restore
AfterLines(m) ==
    restoreLoop(SubSeq(InLines, 1, m), 1,
                [db |-> last.pre, disk |-> last.pre, count |-> 0, err |-> << >>,
                 log |-> << >>, durable |-> TRUE],
                last.force, NoFault).db

\* the store before the killed command, and the store had it completed (for
\* restore, had it completed any number of its lines)
Completed ==
    {last.pre} \cup
    (CASE last.op = "set" ->
              {set(last.pre, last.pre, last.key, last.value, last.force, "none").db}
       [] last.op = "delete" -> {delete(last.pre, last.pre, last.key, "none").db}
       [] last.op = "rename" ->
              {rename(last.pre, last.pre, last.key, last.new_key, last.force, "none").db}
       [] last.op = "restore" -> { AfterLines(m) : m \in 1..Len(InLines) }
       [] OTHER -> {})

\* C16 as stated: whatever the command and wherever the process is killed,
\* the store on disk afterwards is the store after a prefix of the completed
\* operations: the command in progress is on disk as a whole or not at all
C16_Original ==
    (pc = "closed" /\ last.end = "killedIn") => disk \in Completed

\* C16: when the process is killed inside a set, a delete, or a restore (each
\* line it applies taken as one operation), the store on disk afterwards is
\* the store after a prefix of the completed operations: the operation in
\* progress is on disk as a whole or not at all.  Killed inside a rename, the
\* records of all keys but the two renamed are as before.
C16_CrashAtomicity ==
    /\ (KilledInOp("set") \/ KilledInOp("delete") \/ KilledInOp("restore"))
           => disk \in Completed
    /\ KilledInOp("rename") =>
           \A k \in Keys \ {last.key, last.new_key} : get(disk, k) = get(last.pre, k)

\* killed inside a set that overwrites a record, the write on disk
C16_Witness ==
    /\ KilledInOp("set") /\ last.issued # << >>
    /\ Present(last.pre, last.key) /\ disk # last.pre

\* killed inside the second line of a restore, both lines on disk
RestoreKilledOnSecondLine ==
    /\ KilledInOp("restore") /\ last.fault.line = 2 /\ last.issued # << >>
    /\ disk = AfterLines(2) /\ disk # AfterLines(1) /\ AfterLines(1) # last.pre

\* C17 as stated: killed between the write to new and the removal of old,
\* the store on disk has both old and new, with the same value; at no point
\* where rename can be killed is the value lost from both keys
C17_Original ==
    (KilledInOp("rename") /\ Present(last.pre, last.key)) =>
        /\ Len(last.issued) = 1 =>
               /\ Present(disk, last.key)
               /\ get(disk, last.new_key) = get(disk, last.key)
        /\ \E k \in {last.key, last.new_key} : get(disk, k) = get(last.pre, last.key)

\* C17: killed between the write to new and the removal of old, the store on
\* disk has old with its value, and new either with that value or as it was
\* before the call; all other records are as before.  The value is not lost
\* from old as long as the removal has not been issued.
C17_RenameKilled ==
    (KilledInOp("rename") /\ Present(last.pre, last.key) /\ Len(last.issued) <= 1) =>
        /\ get(disk, last.key) = get(last.pre, last.key)
        /\ get(disk, last.new_key)
             \in {get(last.pre, last.new_key), get(last.pre, last.key)}
        /\ \A k \in Keys \ {last.key, last.new_key} : get(disk, k) = get(last.pre, k)

\* killed after the write to a new key that was absent: both keys on disk
C17_Witness ==
    /\ KilledInOp("rename") /\ Len(last.issued) = 1
    /\ last.key # last.new_key
    /\ ~Present(last.pre, last.new_key)
    /\ Present(disk, last.key)
    /\ get(disk, last.new_key) = get(last.pre, last.key)

(***************************************************************************)
(* Rename of an absent key; the bytes of the stored values.                *)
(***************************************************************************)
\* C18: rename(old, new, force) with old absent fails with NotFound for
\* every value of force and whether or not new is present: the not-found
\* message for old is the only message, and the store is unchanged
C18_RenameAbsentOld ==
    (Ran("rename") /\ ~Present(last.pre, last.key)) =>
        /\ ~last.ok
        /\ last.res = "NotFound"
        /\ last.err = << Msg("NotFound", 0, last.key) >>
        /\ db = last.pre
        /\ disk = last.pre

\* rename without force of an absent key onto a present key
C18_Witness ==
    /\ Ran("rename") /\ ~last.force
    /\ ~Present(last.pre, last.key)
    /\ Present(last.pre, last.new_key)
    /\ last.res = "NotFound"

\* the value bytes of the store d hold no carriage return and no newline
NoLineBreaks(d) ==
    \A kb \in DOMAIN d : \A i \in 1..Len(d[kb]) : d[kb][i] \notin {Byte(CR), Byte(LF)}

\* the positions of the tabs of the text v once its carriage returns are gone
TabsKept(v) == Tabs(SelectSeq(v, LAMBDA c : c # CR))

\* C19: from the empty store, after any sequence of set, delete, rename and
\* restore no stored value holds a carriage return or a newline, in the
\* engine's view and in the file; the tabs given in a value are stored
\* unchanged
C19_StoredValues ==
    /\ NoLineBreaks(db)
    /\ NoLineBreaks(disk)
    /\ (Ran("set") /\ last.ok) =>
           /\ Tabs(Decode(db[Encode(last.key)])) = TabsKept(last.value)
           /\ Decode(db[Encode(last.key)]) = Expected(last.value)
    /\ (Ran("rename") /\ last.ok) =>
           \A k \in Keys : Present(db, k) =>
               Decode(db[Encode(k)])
                   = Decode(last.pre[Encode(IF k = last.new_key THEN last.key ELSE k)])
    /\ (Ran("restore") /\ last.file.exists) =>
           \A i \in AppliedLines :
               (\A j \in AppliedLines : j > i => last.log[j].key # last.log[i].key)
                   => Decode(db[Encode(last.log[i].key)]) = last.log[i].value

\* a store with a value that was given with a carriage return and a newline
\* and a value with a tab
C19_Witness ==
    /\ Ran("set") /\ last.ok
    /\ \E i \in 1..Len(last.value) : last.value[i] = CR
    /\ \E i \in 1..Len(last.value) : last.value[i] = LF
    /\ \E kb \in DOMAIN db : \E i \in 1..Len(db[kb]) : db[kb][i] = Byte(TAB)

(***************************************************************************)
(* Restore when its input stream fails (SpecStream).                       *)
(***************************************************************************)
\* the restore that has just returned could not open its file, or a read of
\* it failed
StreamFailed == Ran("restore") /\ (~last.file.exists \/ last.fault.kind = "read")

\* C20 as stated: a stream-level failure is reported as a failure of the
\* whole restore (exit status 1); with the file missing the store is
\* unchanged; when the stream fails after some lines the records applied
\* stay and the count reported is the number applied up to the failure
C20_Original ==
    StreamFailed =>
        /\ ~last.ok /\ ExitStatus(last.ok) = 1
        /\ ~last.file.exists => (db = last.pre /\ disk = last.pre)
        /\ last.fault.kind = "read" =>
               /\ db = AfterLines(last.fault.line - 1)
               /\ \E j \in 1..Len(last.err) :
                      last.err[j] = Msg("Summary", Cardinality(AppliedLines), << >>)

\* C20: a stream-level failure is reported as a failure of the whole restore
\* (exit status 1); with the file missing the store is unchanged and the one
\* message is the not-found error; when the stream fails after some lines
\* the records applied stay, in the engine's view and in the file, the error
\* stream ends with the read error and no count is reported
C20_StreamFailure ==
    /\ StreamFailed =>
          /\ ~last.ok /\ ExitStatus(last.ok) = 1
          /\ ~last.file.exists =>
                 /\ db = last.pre /\ disk = last.pre
                 /\ last.err = << Msg("FileNotFound", 0, << >>) >>
          /\ last.fault.kind = "read" =>
                 /\ db = AfterLines(last.fault.line - 1)
                 /\ disk = db
                 /\ last.count = Cardinality(AppliedLines)
                 /\ last.err[Len(last.err)] = Msg("ReadError", 0, << >>)
                 /\ MessagesOfKind("Summary") = {}
    /\ (pc = "exited" /\ last.op = "restore" /\ ~last.ok) => proc.status = 1

\* the read of the second line failed, the first line applied
C20_Witness ==
    /\ Ran("restore") /\ last.fault = [line |-> 2, kind |-> "read"]
    /\ AppliedLines = {1}
    /\ db # last.pre

(***************************************************************************)
(* Get and dump leave the store alone; the lines of a dump.                *)
(***************************************************************************)
\* the number of lines of the text out: its newlines
LineCount(out) == Len(SelectSeq(out, LAMBDA c : c = LF))

\* the line key<TAB>value of the record kb of the store d
RecordLine(d, kb) == Decode(kb) \o << TAB >> \o Normalize(Decode(d[kb])) \o << LF >>

\* C21: get and dump are read-only: the store after get(k) or dump is the
\* store before, in the engine's view and in the file, whether get found
\* the key or not; dump writes exactly one line per record
C21_Original ==
    /\ (Ran("get") \/ Ran("dump")) => (db = last.pre /\ disk = last.pre)
    /\ Ran("dump") => LineCount(last.out) = Cardinality(DOMAIN last.pre)

\* get and dump leave the engine's view and the file as they were, and get
\* answers from the store as it was
GetAndDumpReadOnly ==
    /\ (Ran("get") \/ Ran("dump")) => (db = last.pre /\ disk = last.pre)
    /\ Ran("get") =>
           /\ last.got = get(last.pre, last.key)
           /\ last.ok <=> Present(last.pre, last.key)

\* dump writes one line per record, the line key<TAB>value of that record,
\* when no key holds a tab, a carriage return or a newline
DumpOneLinePerPlainRecord ==
    (Ran("dump") /\ PlainKeys(last.pre)) =>
        /\ LineCount(last.out) = Cardinality(DOMAIN last.pre)
        /\ \A kb \in DOMAIN last.pre :
               \E i \in 1..Len(FileLines(last.out)) :
                   FileLines(last.out)[i] = RecordLine(last.pre, kb)

\* a dump of a store with a key that holds a newline: more lines than records
DumpSplitsRecord ==
    /\ Ran("dump")
    /\ Cardinality(DOMAIN last.pre) = 1
    /\ LineCount(last.out) = 2

====
